---- MODULE Spec2Model ----
(***************************************************************************)
(* Model of the ai-bridge repository:                                      *)
(*   - oracle_task_manager.py : OracleTaskManager.ask_ai over a git store  *)
(*   - test_responder.py      : the responder loop                         *)
(*   - autonomous_watcher_linux_OLD.py : MicrobotRunner, IssueDetector,    *)
(*                                   MicrobotBuilder, AutonomousWatcher    *)
(*                                                                         *)
(* Time is kept as differences, the way the code reads it:                 *)
(*   elapsed  = time.time() - start_time            (ask_ai)               *)
(*   stuckAge = time.time() - last_screenshot_time  (IssueDetector),       *)
(*              saturated just above the one threshold it is compared to.  *)
(***************************************************************************)
EXTENDS Integers, Sequences, FiniteSets, TLC

----------------------------------------------------------------------------
(* Bounds of the model *)

\* calls of ask_ai the test harness of SpecExchange makes
MaxCalls == 2

\* task identifiers uuid4()[:8] may yield; the code never checks a new
\* identifier against the files already in the store
Ids == {"a", "b"}

\* response texts a Result file may carry ("" is a legal text)
Responses == {"", "patched"}

\* timeout arguments of ask_ai tried by the harness (seconds)
Timeouts == {0, 7, 10}

\* seconds one `git pull` may take (it is cut at 30 s by subprocess.run)
PullDurations == {0, 5}

\* names of screenshot files in SCREENSHOT_DIR
Shots == {"s1", "s2"}

\* the screenshot file names of the directory under Spec
WatchedShots == {"s1"}

\* seconds between two steps of the detector's harness in SpecDetector
TickSteps == {100, 101}

\* checks with a screenshot the harness of SpecDetector records
MaxChecks == 4

\* seconds a process that reacts to terminate() may take to exit (it is
\* waited for at most 10 s)
StopDurations == {0, 10}

\* seconds a Maven build may take (it is cut at 600 s)
BuildDurations == {0, 600}

----------------------------------------------------------------------------
(* Values *)

\* Python's None as a return value of ask_ai
None == "<None>"

\* no file of that name in a directory
NoFile == "<nofile>"

\* (variant: a polling loop that does not sleep)
NoSleep == 5 - 5
\* time.sleep(5) of the polling loop
POLL_INTERVAL == 5

\* timeout=30 of subprocess.run in _git_pull: no pull lasts longer
PULL_TIMEOUT == 30

\* timeout=120 of the call in AIBridgeClient.request_fix
ASK_TIMEOUT == 120

\* line 48, 49, 50 of the watcher
CHECK_INTERVAL == 30
RESTART_DELAY == 10
MAX_RESTART_ATTEMPTS == 3

\* line 143: process.wait(timeout=10)
STOP_GRACE == 10

\* line 198: `time_stuck > 300`
STUCK_THRESHOLD == 300

\* no screenshot: last_screenshot = None, or an empty directory
NoShot == "<noshot>"

Min(x, y) == IF x < y THEN x ELSE y

\* time.time() - last_screenshot_time is only ever compared with
\* STUCK_THRESHOLD: differences above it are kept as AgeCap
AgeCap == STUCK_THRESHOLD + 1

----------------------------------------------------------------------------
VARIABLES
    \* ---- the queue store: three copies of the directory pair ----
    wt,         \* the client's working tree  [tasks, results]
    base,       \* the client's last synchronized snapshot (origin as last fetched)
    remote,     \* the store as the peer sees it (the pushed state)
    \* ---- the frame of OracleTaskManager.ask_ai ----
    cpc,        \* position: idle, push, loop, pull, check, sleep, ret
    task_id,    \* line 75
    timeout,    \* the timeout argument
    elapsed,    \* time.time() - start_time
    ret,        \* the value returned
    exitLine,   \* the return statement taken: 102, 130, 136 (0: none yet)
    calls,      \* calls of ask_ai completed (harness)
    \* ---- the responder loop of test_responder.py ----
    rtask,      \* the task whose result is written and whose file is not
                \* yet unlinked ("-" : between tasks)
    \* ---- observations (history, no program state) ----
    observing,       \* the history of the exchange is recorded (it is under
                     \* the harness of SpecExchange only)
    presentAtWait,   \* text of result_<task_id> in the client's results
                     \* directory when the wait began (line 109), or NoFile
    respondedInTime, \* the responder wrote result_<task_id> during the wait
                     \* at a moment with elapsed < timeout
    pulledText,      \* text of result_<task_id> the last successful pull of
                     \* this call left in the working tree, or NoFile
    pullFailed,      \* a pull of this call has failed
    failedLocal,     \* tasks whose push failed while the peer did not have
                     \* them, and that were not submitted again since
    handled,         \* per identifier: how often the responder has processed
                     \* the task file of that name since ask_ai last wrote
                     \* it (kept up to 2)
    \* ---- MicrobotRunner ----
    proc,            \* self.process: "none" (None), or the child it refers
                     \* to: "running", "exited", or "dying" (SIGKILL sent,
                     \* the child not yet dead: poll() still returns None)
    orphan,          \* a launched child is alive that self.process does not
                     \* refer to
    \* ---- SCREENSHOT_DIR: the *.png files sorted by mtime ----
    screens,
    \* ---- IssueDetector ----
    last_screenshot, \* self.last_screenshot, NoShot for None
    stuckAge,        \* time.time() - self.last_screenshot_time
    \* ---- AutonomousWatcher.run ----
    wpc,             \* position in run()
    restart_count,   \* self.restart_count
    issue,           \* the type of the issue of this tick, None if none
    \* ---- observations ----
    lastCheck,       \* what the latest call of check_for_issues met
                     \* ("started": run() has launched a process and has not
                     \* checked it yet):
                     \* on: "down" (process not running), "empty" (running,
                     \* no screenshot), "shot" (running, a latest screenshot);
                     \* streak: for how long the checks before it had been
                     \* seeing that same latest screenshot (-1: they had not)
    obs,             \* SpecDetector: the checks of a running process that
                     \* found a screenshot: <<[shot, age]>>, oldest first
    crashRun,        \* CRASH issues answered since restart_count was last 0
                     \* (kept up to MAX_RESTART_ATTEMPTS + 1)
    crashAsked       \* ask_ai was called for a CRASH issue since then

storeVars == <<wt, base, remote>>
runVars   == <<proc, orphan>>
dirVars   == <<screens>>
detVars   == <<last_screenshot>>
ageVars   == <<stuckAge, obs>>
loopVars  == <<wpc, restart_count, issue, lastCheck, crashRun, crashAsked>>
askVars   == <<cpc, task_id, timeout, elapsed, ret, exitLine, calls>>
respVars  == <<rtask>>
obsVars   == <<observing, presentAtWait, respondedInTime, pulledText, pullFailed, failedLocal,
               handled>>
xvars     == <<storeVars, askVars, respVars, obsVars>>

\* the value a history variable takes: v when the history is recorded
Rec(v, off) == IF observing THEN v ELSE off

vars == <<xvars, runVars, dirVars, detVars, ageVars, loopVars>>

\* d seconds pass
Elapse(d) ==
    /\ stuckAge' = Min(stuckAge + d, AgeCap)
    /\ obs' = [i \in 1..Len(obs) |-> [obs[i] EXCEPT !.age = Min(@ + d, AgeCap)]]

----------------------------------------------------------------------------
(* The queue store *)

\* a copy of the store is [tasks |-> the identifiers with a file task_<id>.json,
\*                         results |-> per identifier the response text of
\*                                     result_<id>.json, or NoFile]

\* (variant: the first result file found, whatever its identifier)
AnyResultFile(id, results) ==
    IF \E u \in Ids : results[u] # NoFile
    THEN CHOOSE u \in Ids : results[u] # NoFile
    ELSE id
\* line 108: the name result_<id>.json is built from the task identifier alone
result_file(id, results) == id

\* (variant: a pull that brings the task files only)
PullKeepsResults(w, b, r) ==
    [tasks   |-> {t \in Ids : IF (t \in r.tasks) # (t \in b.tasks)
                              THEN t \in r.tasks ELSE t \in w.tasks},
     results |-> w.results]
\* `git pull` that succeeds: every file the remote changed since the last
\* synchronization is taken from the remote, the others stay as they are
Merge(w, b, r) ==
    [tasks   |-> {t \in Ids : IF (t \in r.tasks) # (t \in b.tasks)
                              THEN t \in r.tasks ELSE t \in w.tasks},
     results |-> [u \in Ids |-> IF r.results[u] # b.results[u]
                                THEN r.results[u] ELSE w.results[u]]]

\* a file changed on both sides since the last synchronization: git refuses
Conflict(w, b, r) ==
    \/ \E t \in Ids : /\ (t \in r.tasks) # (t \in b.tasks)
                      /\ (t \in w.tasks) # (t \in b.tasks)
                      /\ (t \in w.tasks) # (t \in r.tasks)
    \/ \E u \in Ids : /\ r.results[u] # b.results[u]
                      /\ w.results[u] # b.results[u]
                      /\ w.results[u] # r.results[u]

----------------------------------------------------------------------------
(* OracleTaskManager.ask_ai, one action per step *)

WaitPcs == {"loop", "pull", "check", "sleep"}

\* lines 75-95: a fresh identifier, the task file written into tasks/
ask_ai_begin(t, to) ==
    /\ cpc = "idle"
    /\ task_id' = t
    /\ timeout' = to
    /\ wt' = [wt EXCEPT !.tasks = @ \cup {t}]
    /\ cpc' = "push"
    /\ elapsed' = 0
    /\ ret' = None
    /\ exitLine' = 0
    /\ presentAtWait' = NoFile
    /\ respondedInTime' = FALSE
    /\ pulledText' = NoFile
    /\ pullFailed' = FALSE
    /\ failedLocal' = failedLocal \ {t}
    /\ handled' = [handled EXCEPT ![t] = 0]
    /\ UNCHANGED <<base, remote, calls, rtask, observing>>

\* lines 100, 51-57: add, commit and push all succeed.  The push is accepted
\* only when the remote has not moved since the client's last pull.
git_push_ok ==
    /\ cpc = "push"
    /\ base = remote
    /\ remote' = wt
    /\ base' = wt
    /\ cpc' = "loop"
    /\ elapsed' = 0                         \* line 109: start_time
    /\ presentAtWait' = Rec(wt.results[result_file(task_id, wt.results)], NoFile)
    /\ UNCHANGED <<wt, task_id, timeout, ret, exitLine, calls, rtask, observing,
                   respondedInTime, pulledText, pullFailed, failedLocal, handled>>

\* lines 100-102, 58-60: one of add, commit, push raises; ask_ai returns None
git_push_fail ==
    /\ cpc = "push"
    /\ ret' = None
    /\ exitLine' = 102
    /\ cpc' = "ret"
    /\ failedLocal' = IF task_id \in remote.tasks THEN failedLocal
                      ELSE Rec(failedLocal \cup {task_id}, {})
    /\ UNCHANGED <<storeVars, task_id, timeout, elapsed, calls, rtask, observing,
                   presentAtWait, respondedInTime, pulledText, pullFailed, handled>>

\* line 111 and lines 135-136: the loop test; on exit the timeout return
loop_test ==
    /\ cpc = "loop"
    /\ IF elapsed < timeout
       THEN /\ cpc' = "pull"
            /\ UNCHANGED <<ret, exitLine>>
       ELSE /\ cpc' = "ret"
            /\ ret' = None
            /\ exitLine' = 136
    /\ UNCHANGED <<storeVars, task_id, timeout, elapsed, calls, rtask, obsVars>>

\* line 113, 38-49: git pull; a failure is caught and only printed
git_pull(ok, d) ==
    /\ cpc = "pull"
    /\ ok => ~Conflict(wt, base, remote)
    /\ wt' = IF ok THEN Merge(wt, base, remote) ELSE wt
    /\ base' = IF ok THEN remote ELSE base
    /\ elapsed' = elapsed + d
    /\ pulledText' = IF ok THEN Rec(remote.results[task_id], NoFile) ELSE pulledText
    /\ pullFailed' = Rec(pullFailed \/ ~ok, FALSE)
    /\ cpc' = "check"
    /\ UNCHANGED <<remote, task_id, timeout, ret, exitLine, calls, rtask, observing,
                   presentAtWait, respondedInTime, failedLocal, handled>>

\* (variant: the result file read and left in place)
check_result_keep ==
    /\ cpc = "check"
    /\ LET f == result_file(task_id, wt.results) IN
       IF wt.results[f] # NoFile
       THEN /\ ret' = wt.results[f]
            /\ exitLine' = 130
            /\ cpc' = "ret"
            /\ UNCHANGED wt
       ELSE /\ cpc' = "sleep"
            /\ UNCHANGED <<wt, ret, exitLine>>
    /\ UNCHANGED <<base, remote, task_id, timeout, elapsed, calls, rtask, obsVars>>

\* lines 116-130: the result file exists: read, unlink, return the text
\* line 132: otherwise go on to the sleep
check_result ==
    /\ cpc = "check"
    /\ LET f == result_file(task_id, wt.results) IN
       IF wt.results[f] # NoFile
       THEN /\ ret' = wt.results[f]
            /\ wt' = [wt EXCEPT !.results[f] = NoFile]
            /\ exitLine' = 130
            /\ cpc' = "ret"
       ELSE /\ cpc' = "sleep"
            /\ UNCHANGED <<wt, ret, exitLine>>
    /\ UNCHANGED <<base, remote, task_id, timeout, elapsed, calls, rtask, obsVars>>

\* line 133
poll_sleep ==
    /\ cpc = "sleep"
    /\ elapsed' = elapsed + POLL_INTERVAL
    /\ cpc' = "loop"
    /\ UNCHANGED <<storeVars, task_id, timeout, ret, exitLine, calls, rtask, obsVars>>

ask_ai_step ==
    /\ \/ git_push_ok /\ UNCHANGED ageVars
       \/ git_push_fail /\ UNCHANGED ageVars
       \/ loop_test /\ UNCHANGED ageVars
       \/ \E ok \in BOOLEAN, d \in PullDurations : git_pull(ok, d) /\ Elapse(d)
       \/ check_result /\ UNCHANGED ageVars
       \/ poll_sleep /\ Elapse(POLL_INTERVAL)
    /\ UNCHANGED <<runVars, dirVars, detVars, loopVars>>

----------------------------------------------------------------------------
(* test_responder.py: the loop body, on the store as the peer sees it *)

\* lines 9-26: a task file found, its result written under the task's id
resp_write(t, r) ==
    /\ rtask = "-"
    /\ t \in remote.tasks
    /\ remote' = [remote EXCEPT !.results[t] = r]
    /\ rtask' = t
    /\ respondedInTime' = Rec(respondedInTime \/
                            (cpc \in WaitPcs /\ t = task_id /\ elapsed < timeout), FALSE)
    /\ handled' = Rec([handled EXCEPT ![t] = Min(@ + 1, 2)], handled)
    /\ UNCHANGED <<wt, base, askVars, observing, presentAtWait, pulledText, pullFailed,
                   failedLocal>>

\* (variant: the task file left in place)
resp_unlink_keep ==
    /\ rtask # "-"
    /\ rtask' = "-"
    /\ UNCHANGED <<storeVars, askVars, obsVars>>
\* line 31: the task file removed
resp_unlink ==
    /\ rtask # "-"
    /\ remote' = [remote EXCEPT !.tasks = @ \ {rtask}]
    /\ rtask' = "-"
    /\ UNCHANGED <<wt, base, askVars, obsVars>>

responder_step ==
    /\ \/ \E t \in Ids, r \in Responses : resp_write(t, r)
       \/ resp_unlink
    /\ UNCHANGED <<runVars, dirVars, detVars, ageVars, loopVars>>

----------------------------------------------------------------------------
(* The exchange on its own: a caller that calls ask_ai MaxCalls times *)

\* the caller of lines 201-204: a call with some identifier and timeout
caller_call ==
    /\ calls < MaxCalls
    /\ \E t \in Ids, to \in Timeouts : ask_ai_begin(t, to)
    /\ UNCHANGED <<runVars, dirVars, detVars, ageVars, loopVars>>

\* the call has returned; the caller goes on
caller_return ==
    /\ cpc = "ret"
    /\ cpc' = "idle"
    /\ calls' = calls + 1
    /\ UNCHANGED <<storeVars, task_id, timeout, elapsed, ret, exitLine, rtask, obsVars>>
    /\ UNCHANGED <<runVars, dirVars, detVars, ageVars, loopVars>>

\* the repository directory as OracleTaskManager.__init__ finds it: in sync,
\* no task pending, any result files left by earlier runs
InitStore ==
    /\ \E rs \in [Ids -> Responses \cup {NoFile}] :
          /\ wt = [tasks |-> {}, results |-> rs]
          /\ base = wt
          /\ remote = wt
    /\ cpc = "idle"
    /\ task_id = "a"
    /\ timeout = 0
    /\ elapsed = 0
    /\ ret = None
    /\ exitLine = 0
    /\ calls = 0
    /\ rtask = "-"
    /\ presentAtWait = NoFile
    /\ respondedInTime = FALSE
    /\ pulledText = NoFile
    /\ pullFailed = FALSE
    /\ failedLocal = {}
    /\ handled = [u \in Ids |-> 0]


\* MicrobotRunner.__init__, IssueDetector.__init__ (last_screenshot_time = 0
\* lies far more than the threshold back), AutonomousWatcher.__init__
InitWatcherVars ==
    /\ proc = "none"
    /\ orphan = FALSE
    /\ last_screenshot = NoShot
    /\ stuckAge = AgeCap
    /\ wpc = "start0"
    /\ restart_count = 0
    /\ issue = None
    /\ lastCheck = [on |-> "none", streak |-> -1]
    /\ obs = <<>>
    /\ crashRun = 0
    /\ crashAsked = FALSE

InitExchange ==
    /\ InitStore
    /\ InitWatcherVars
    /\ screens = <<>>
    /\ observing = TRUE

NextExchange ==
    \/ caller_call
    \/ ask_ai_step
    \/ caller_return
    \/ responder_step

SpecExchange == InitExchange /\ [][NextExchange]_vars

\* ask_ai is sequential code: a step that can be taken is taken
SpecExchangeFair == SpecExchange /\ WF_vars(ask_ai_step)

----------------------------------------------------------------------------
(* MicrobotRunner and the screenshot directory *)

\* lines 125-129: a process was launched and poll() returns None
is_running == proc \in {"running", "dying"}

\* lines 137-147: self.process after stop().  A process that reacts to
\* terminate() has exited when wait() returns; one that does not is sent
\* SIGKILL after the grace period, and kill() is not followed by a wait()
stop(p, reacts) ==
    IF p \in {"running", "dying"}
    THEN IF reacts THEN "exited" ELSE "dying"
    ELSE p

\* the seconds stop() takes
StopTimes(p, reacts) ==
    IF p \in {"running", "dying"}
    THEN IF reacts THEN StopDurations ELSE {STOP_GRACE}
    ELSE {0}

\* line 187, 193: the *.png files sorted by mtime; the last one is the latest
Latest(scr) == IF scr = <<>> THEN NoShot ELSE scr[Len(scr)]

Without(scr, s) == SelectSeq(scr, LAMBDA x : x # s)

\* the directories of at most two files
Dirs == {<<>>} \cup {<<s>> : s \in Shots}
               \cup {q \in Shots \X Shots : q[1] # q[2]}

\* the plugin of the running process writes screenshot s (new, or again)
env_screenshot(s) ==
    /\ proc = "running"
    /\ screens' = Append(Without(screens, s), s)
    /\ UNCHANGED <<xvars, runVars, detVars, ageVars, loopVars>>

\* a screenshot file is removed from the directory
env_delete(s) ==
    /\ \E i \in 1..Len(screens) : screens[i] = s
    /\ screens' = Without(screens, s)
    /\ UNCHANGED <<xvars, runVars, detVars, ageVars, loopVars>>

\* the supervised process ends: on its own, or of the SIGKILL sent to it
env_proc_exit ==
    /\ proc \in {"running", "dying"}
    /\ proc' = "exited"
    /\ UNCHANGED <<xvars, orphan, dirVars, detVars, ageVars, loopVars>>

----------------------------------------------------------------------------
(* IssueDetector *)

\* (variant: no test for an empty directory)
check_screenshots_no_empty_test(scr, last, age) ==
    IF Latest(scr) = last
    THEN [issue |-> IF age > STUCK_THRESHOLD THEN "STUCK" ELSE None,
          last |-> last, age |-> age]
    ELSE [issue |-> None, last |-> Latest(scr), age |-> 0]
\* (variant: STUCK as soon as the latest screenshot is the remembered one)
check_screenshots_no_clock(scr, last, age) ==
    IF scr = <<>>
    THEN [issue |-> None, last |-> last, age |-> age]
    ELSE IF Latest(scr) = last
         THEN [issue |-> "STUCK", last |-> last, age |-> age]
         ELSE [issue |-> None, last |-> Latest(scr), age |-> 0]
\* lines 183-213: the issue returned and the detector's fields afterwards
check_screenshots(scr, last, age) ==
    IF scr = <<>>
    THEN [issue |-> None, last |-> last, age |-> age]
    ELSE IF Latest(scr) = last
         THEN [issue |-> IF age > STUCK_THRESHOLD THEN "STUCK" ELSE None,
               last |-> last, age |-> age]
         ELSE [issue |-> None, last |-> Latest(scr), age |-> 0]

\* (variant: the screenshots looked at before the process)
check_for_issues_screens_first(running, scr, last, age) ==
    LET r == check_screenshots(scr, last, age) IN
    IF r.issue # None THEN r
    ELSE IF ~running THEN [issue |-> "CRASH", last |-> r.last, age |-> r.age]
    ELSE r
\* lines 160-181
check_for_issues(running, scr, last, age) ==
    IF ~running
    THEN [issue |-> "CRASH", last |-> last, age |-> age]
    ELSE check_screenshots(scr, last, age)

----------------------------------------------------------------------------
(* The detector on its own: a harness that lets time pass, runs and ends the
   process, fills the directory and calls check_for_issues *)

harness_tick(d) ==
    /\ Elapse(d)
    /\ UNCHANGED <<xvars, runVars, dirVars, detVars, loopVars>>

\* runner.start() that succeeds (lines 96-107)
harness_start ==
    /\ proc # "running"
    /\ proc' = "running"
    /\ UNCHANGED <<xvars, orphan, dirVars, detVars, ageVars, loopVars>>

\* the age of the oldest of the observations that end the history h and all
\* saw screenshot s; -1 when the latest observation saw another one, or none
RECURSIVE StreakAge(_, _)
StreakAge(h, s) ==
    IF h = <<>> \/ h[Len(h)].shot # s THEN -1
    ELSE LET before == StreakAge(SubSeq(h, 1, Len(h) - 1), s) IN
         IF before = -1 THEN h[Len(h)].age ELSE before

CheckMet(running, scr, h) ==
    [on |-> IF ~running THEN "down" ELSE IF scr = <<>> THEN "empty" ELSE "shot",
     streak |-> StreakAge(h, Latest(scr))]

\* issue = self.detector.check_for_issues(self.runner)
harness_check ==
    /\ Len(obs) < MaxChecks
    /\ LET r == check_for_issues(is_running, screens, last_screenshot, stuckAge) IN
       /\ issue' = r.issue
       /\ last_screenshot' = r.last
       /\ stuckAge' = r.age
       /\ obs' = IF is_running /\ screens # <<>>
                 THEN Append(obs, [shot |-> Latest(screens), age |-> 0])
                 ELSE obs
    /\ lastCheck' = CheckMet(is_running, screens, obs)
    /\ UNCHANGED <<xvars, runVars, dirVars, wpc, restart_count, crashRun, crashAsked>>

InitDetector ==
    /\ InitStore
    /\ InitWatcherVars
    /\ screens \in Dirs
    /\ wt.results = [u \in Ids |-> NoFile]
    /\ observing = FALSE

NextDetector ==
    \/ \E d \in TickSteps : harness_tick(d)
    \/ harness_start
    \/ env_proc_exit
    \/ \E s \in Shots : env_screenshot(s)
    \/ \E s \in Shots : env_delete(s)
    \/ harness_check

SpecDetector == InitDetector /\ [][NextDetector]_vars

----------------------------------------------------------------------------
(* AutonomousWatcher.run, with the calls it makes *)

\* (variant: a launch attempted whatever the probe found)
start_ok_no_probe(tor, launch) == launch
\* lines 68-111: start() launches only with the proxy port open and Popen
\* not raising
start_ok(tor, launch) == tor /\ launch

\* lines 96-105: self.process after start(); it is assigned only in a call
\* that launched a child, together with self.start_time
start(p, tor, launch) == IF start_ok(tor, launch) THEN "running" ELSE p

\* lines 96-102: a handle assigned while the child it referred to was still
\* running leaves that child without a handle
Orphaned(p, orph, tor, launch) == orph \/ (start_ok(tor, launch) /\ p = "running")

\* Python's truth value of what ask_ai returned (`if fix:`, `if response:`)
Truthy(r) == r # None /\ r # ""

\* (variant: <= for <)
AutoRestartUpTo(kind, count) == kind = "CRASH" /\ count <= MAX_RESTART_ATTEMPTS
\* line 409
AutoRestart(kind, count) == kind = "CRASH" /\ count < MAX_RESTART_ATTEMPTS

\* lines 388-392: where run() goes after the initial start()
AfterStart0(started) == IF started THEN "sleep" ELSE "stopped"

\* (variant: a failed restart ends the loop)
AfterRestartChecked(started) == IF started THEN "sleep" ELSE "stopped"
\* lines 414-415, 434, 442: the result of start() is not looked at
AfterRestart(started) == "sleep"

\* (variant: the process restarted when there is no fix)
AfterFixRestart(fix) == IF Truthy(fix) THEN "pull_latest" ELSE "delay"
\* lines 422 and 443-445: `if fix:` ... else: break
AfterFix(fix) == IF Truthy(fix) THEN "pull_latest" ELSE "stopped"

\* lines 312-323: what pull_latest() returns: True for a pull that succeeded
\* and brought changes (its output is not 'Already up to date')
pull_latest(ok, code, b, r) == ok /\ (code \/ r # b)

\* (variant: nothing pulled ends the loop)
AfterPullStrict(pulled) == IF pulled THEN "rebuild" ELSE "stopped"
\* lines 427 and 438-442
AfterPull(pulled) == IF pulled THEN "rebuild" ELSE "delay"

\* lines 430 and 435-437
AfterBuild(built) == IF built THEN "delay" ELSE "stopped"

\* (variant: the counter kept over a rebuild)
CountKept(built, count) == count
\* line 432
CountAfterBuild(built, count) == IF built THEN 0 ELSE count

\* the history of checks over a call of start(): a process just launched
\* has not been checked yet
Started(started, met) ==
    IF started THEN [on |-> "started", streak |-> -1] ELSE met

\* lines 388-392: the initial start; run() returns when it fails
w_start0(tor, launch) ==
    /\ wpc = "start0"
    /\ proc' = start(proc, tor, launch)
    /\ orphan' = Orphaned(proc, orphan, tor, launch)
    /\ wpc' = AfterStart0(start_ok(tor, launch))
    /\ lastCheck' = Started(start_ok(tor, launch), lastCheck)
    /\ UNCHANGED <<xvars, dirVars, detVars, ageVars, restart_count, issue,
                   crashRun, crashAsked>>

\* line 396
w_sleep ==
    /\ wpc = "sleep"
    /\ Elapse(CHECK_INTERVAL)
    /\ wpc' = "check"
    /\ UNCHANGED <<xvars, runVars, dirVars, detVars, restart_count, issue,
                   lastCheck, crashRun, crashAsked>>

\* lines 399-403 and 447-450
w_check ==
    /\ wpc = "check"
    /\ LET r == check_for_issues(is_running, screens, last_screenshot, stuckAge) IN
       /\ issue' = r.issue
       /\ last_screenshot' = r.last
       /\ stuckAge' = r.age
       /\ wpc' = IF r.issue # None THEN "stop" ELSE "sleep"
    /\ lastCheck' = CheckMet(is_running, screens, obs)
    /\ UNCHANGED <<xvars, runVars, dirVars, obs, restart_count, crashRun, crashAsked>>

\* line 406 and lines 137-147: stop() of the process of this tick
w_stop(reacts) ==
    /\ wpc = "stop"
    /\ proc' = stop(proc, reacts)
    /\ \E d \in StopTimes(proc, reacts) : Elapse(d)
    /\ wpc' = "decide"
    /\ UNCHANGED <<xvars, orphan, dirVars, detVars, restart_count, issue,
                   lastCheck, crashRun, crashAsked>>

\* lines 409-412 and 417-418: restart, or ask for help
w_decide ==
    /\ wpc = "decide"
    /\ IF AutoRestart(issue, restart_count)
       THEN /\ restart_count' = restart_count + 1
            /\ wpc' = "delay"
       ELSE /\ wpc' = "request_fix"
            /\ UNCHANGED restart_count
    /\ crashRun' = IF issue = "CRASH"
                   THEN Min(crashRun + 1, MAX_RESTART_ATTEMPTS + 1)
                   ELSE crashRun
    /\ UNCHANGED <<xvars, runVars, dirVars, detVars, ageVars, issue, lastCheck,
                   crashAsked>>

\* lines 413, 433, 441
w_delay ==
    /\ wpc = "delay"
    /\ Elapse(RESTART_DELAY)
    /\ wpc' = "restart"
    /\ UNCHANGED <<xvars, runVars, dirVars, detVars, restart_count, issue,
                   lastCheck, crashRun, crashAsked>>

\* lines 414-415, 434, 442: start(), its result not looked at
w_restart(tor, launch) ==
    /\ wpc = "restart"
    /\ proc' = start(proc, tor, launch)
    /\ orphan' = Orphaned(proc, orphan, tor, launch)
    /\ wpc' = AfterRestart(start_ok(tor, launch))
    /\ lastCheck' = Started(start_ok(tor, launch), lastCheck)
    /\ UNCHANGED <<xvars, dirVars, detVars, ageVars, restart_count, issue,
                   crashRun, crashAsked>>

\* line 420, lines 229-280: request_fix calls ask_ai(ai, prompt, timeout=120)
w_request_fix ==
    /\ wpc = "request_fix"
    /\ \E t \in Ids : ask_ai_begin(t, ASK_TIMEOUT)
    /\ wpc' = "asking"
    /\ crashAsked' = (crashAsked \/ issue = "CRASH")
    /\ UNCHANGED <<runVars, dirVars, detVars, ageVars, restart_count, issue,
                   lastCheck, crashRun>>

\* lines 282-287, 422, 443-445: ask_ai has returned
w_fix_returned ==
    /\ wpc = "asking"
    /\ cpc = "ret"
    /\ cpc' = "idle"
    /\ wpc' = AfterFix(ret)
    /\ UNCHANGED <<storeVars, task_id, timeout, elapsed, ret, exitLine, calls,
                   rtask, obsVars>>
    /\ UNCHANGED <<runVars, dirVars, detVars, ageVars, restart_count, issue,
                   lastCheck, crashRun, crashAsked>>

\* lines 427 and 299-323, 438-440: git pull in MICROBOT_DIR, which is the
\* directory of the queue store (lines 37, 39); `code`: the remote holds a
\* commit outside tasks/ and results/ that this pull brings
w_pull_latest(ok, code, d) ==
    /\ wpc = "pull_latest"
    /\ ok => ~Conflict(wt, base, remote)
    /\ wt' = IF ok THEN Merge(wt, base, remote) ELSE wt
    /\ base' = IF ok THEN remote ELSE base
    /\ Elapse(d)
    /\ wpc' = AfterPull(pull_latest(ok, code, base, remote))
    /\ UNCHANGED <<remote, askVars, rtask, obsVars>>
    /\ UNCHANGED <<runVars, dirVars, detVars, restart_count, issue, lastCheck,
                   crashRun, crashAsked>>

\* lines 430-437 and 325-348
w_rebuild(built, d) ==
    /\ wpc = "rebuild"
    /\ Elapse(d)
    /\ restart_count' = CountAfterBuild(built, restart_count)
    /\ crashRun' = IF built THEN 0 ELSE crashRun
    /\ crashAsked' = IF built THEN FALSE ELSE crashAsked
    /\ wpc' = AfterBuild(built)
    /\ UNCHANGED <<xvars, runVars, dirVars, detVars, issue, lastCheck>>

\* lines 452-454: an exception raised inside the try block of a tick is
\* printed, CHECK_INTERVAL is slept and the loop goes on.  Raised
\*   - by check_for_issues: line 187 stats a file that was removed from the
\*     directory after glob() had listed it;
\*   - by request_fix: ask_ai cannot write the task file (lines 93-95)
w_exception ==
    /\ \/ /\ wpc = "check"
          /\ is_running
          /\ \E i \in 1..Len(screens) : screens' = Without(screens, screens[i])
          /\ UNCHANGED crashAsked
       \/ /\ wpc = "request_fix"
          /\ crashAsked' = (crashAsked \/ issue = "CRASH")
          /\ UNCHANGED screens
    /\ Elapse(CHECK_INTERVAL)
    /\ wpc' = "sleep"
    /\ UNCHANGED <<xvars, runVars, detVars, restart_count, issue, lastCheck,
                   crashRun>>

\* where in the code a signal finds the main thread
SignalPoints == {"code", "probe", "popen"}

\* lines 366-371: SIGINT or SIGTERM; the handler runs between two bytecodes
\* of the main thread: self.runner.stop(), then sys.exit(0) raises SystemExit
\* there.
\*   "code" : SystemExit leaves run() (no `except Exception` catches it);
\*   "probe": inside the try block of _check_tor (lines 115-123), whose bare
\*            `except:` catches SystemExit: start() returns False, and run()
\*            returns at line 390, or at the loop test, self.running being
\*            False;
\*   "popen": inside start(), when Popen has created the child and
\*            self.process is not yet assigned (lines 96-102): stop() saw the
\*            handle of before, and no handle refers to the new child
w_signal(reacts, at) ==
    /\ wpc \notin {"stopped", "exited"}
    /\ at \in {"probe", "popen"} => wpc \in {"start0", "restart"}
    /\ reacts \/ is_running       \* (no process: nothing to react)
    /\ proc' = stop(proc, reacts)
    /\ orphan' = (orphan \/ at = "popen")
    /\ UNCHANGED <<storeVars, calls, rtask, obsVars, dirVars, obs>>
    /\ IF at = "probe"
       THEN /\ wpc' = "stopped"
            /\ UNCHANGED <<cpc, task_id, timeout, elapsed, ret, exitLine>>
            /\ UNCHANGED <<detVars, stuckAge, restart_count, issue, lastCheck,
                           crashRun, crashAsked>>
       ELSE \* the Python process ends: its frames and objects are no more,
            \* shown here as they were constructed
            /\ wpc' = "exited"
            /\ cpc' = "idle"
            /\ task_id' = "a" /\ timeout' = 0 /\ elapsed' = 0
            /\ ret' = None /\ exitLine' = 0
            /\ last_screenshot' = NoShot /\ stuckAge' = AgeCap
            /\ restart_count' = 0 /\ issue' = None
            /\ lastCheck' = [on |-> "none", streak |-> -1]
            /\ crashRun' = 0 /\ crashAsked' = FALSE

\* a step of the signal handler
Signalled == \E reacts \in BOOLEAN, at \in SignalPoints : w_signal(reacts, at)

watcher_step ==
    \/ \E tor, launch \in BOOLEAN : w_start0(tor, launch)
    \/ w_sleep
    \/ w_check
    \/ \E reacts \in BOOLEAN : w_stop(reacts)
    \/ w_decide
    \/ w_delay
    \/ \E tor, launch \in BOOLEAN : w_restart(tor, launch)
    \/ w_request_fix
    \/ w_fix_returned
    \/ \E ok, code \in BOOLEAN, d \in PullDurations : w_pull_latest(ok, code, d)
    \/ \E built \in BOOLEAN, d \in BuildDurations : w_rebuild(built, d)
    \/ w_exception
    \/ \E reacts \in BOOLEAN, at \in SignalPoints : w_signal(reacts, at)

\* the watcher starts on a store with no file left in it, and watches a
\* directory that holds at most the one file of WatchedShots
InitWatcher ==
    /\ InitStore
    /\ InitWatcherVars
    /\ wt.results = [u \in Ids |-> NoFile]
    /\ screens \in {<<>>} \cup {<<s>> : s \in WatchedShots}
    /\ observing = FALSE

Next ==
    \/ watcher_step
    \/ ask_ai_step
    \/ responder_step
    \/ env_proc_exit
    \/ \E s \in WatchedShots : env_screenshot(s)
    \/ \E s \in WatchedShots : env_delete(s)

Spec == InitWatcher /\ [][Next]_vars

----------------------------------------------------------------------------
(* Claims about the task exchange (SpecExchange, SpecExchangeFair) *)

\* C1 as stated: for every timeout value, a Result file for t present in
\* the client's results directory when the wait begins is what the call
\* returns, and the file is gone when the call returns.
C1_PresentResultReturned_AnyTimeout ==
    (cpc = "ret" /\ presentAtWait # NoFile)
        => (ret = presentAtWait /\ wt.results[task_id] = NoFile)

\* C1 amended: for every timeout > 0, a Result file for t present in the
\* client's results directory when the wait begins makes the call return at
\* its first poll with the text of result_t as that poll's pull left it (the
\* text present when the wait began, or the peer's rewrite of result_t when
\* the pull fetched one), and the file is gone when the call returns.
C1_PresentResultReturned ==
    (cpc = "ret" /\ presentAtWait # NoFile /\ timeout > 0)
        => /\ exitLine = 130
           /\ ret = (IF pulledText # NoFile THEN pulledText ELSE presentAtWait)
           /\ wt.results[task_id] = NoFile
           /\ elapsed \in PullDurations

C1_Witness ==
    /\ cpc = "ret"
    /\ presentAtWait = "patched"
    /\ timeout > 0
    /\ ret = "patched"
    /\ wt.results[task_id] = NoFile

\* C2: the wait always ends, whatever the responder and the pulls do; a call
\* that ends without having found result_t returns None, at the loop test,
\* with the timeout reached; and no poll starts once the timeout is reached
\* (the wait overshoots it by less than one pull and one sleep).
C2_WaitEndsWithNone ==
    /\ (cpc \in WaitPcs) ~> (cpc = "ret")
    /\ []((cpc = "ret" /\ exitLine # 130) => ret = None)
    /\ []((cpc = "ret" /\ exitLine = 136) => elapsed >= timeout)
    /\ [](cpc = "pull" => elapsed < timeout)
    /\ [](cpc \in WaitPcs => elapsed < timeout + PULL_TIMEOUT + POLL_INTERVAL)

C2_Witness ==
    /\ cpc = "ret"
    /\ exitLine = 136
    /\ timeout > 0
    /\ pullFailed
    /\ pulledText = NoFile
    /\ ret = None

\* C3 as stated: a Result for t that the responder makes visible at any
\* moment before the timeout has elapsed is returned (here: even with no
\* pull failing), never None.
C3_VisibleInTimeReturned ==
    (cpc = "ret" /\ respondedInTime /\ ~pullFailed) => ret # None

\* C3 amended: a Result for t that is visible at the remote when a pull of
\* the polling loop succeeds is returned at that very poll (its text, not
\* None); one that becomes visible only after the last poll's pull is not.
C3_FetchedResultReturned ==
    /\ pulledText # NoFile => cpc \in {"check", "ret", "idle"}
    /\ (cpc \in {"ret", "idle"} /\ pulledText # NoFile)
          => (ret = pulledText /\ exitLine = 130)

C3_Witness ==
    /\ cpc = "ret"
    /\ respondedInTime
    /\ presentAtWait = NoFile
    /\ pulledText = "patched"
    /\ ret = "patched"
    /\ elapsed > 0

\* C4: a step of ask_ai for task t returns only the text of result_t, and
\* removes no result file but result_t.
C4_ExactIdentifier ==
    [][ask_ai_step =>
        /\ \A u \in Ids \ {task_id} :
              wt.results[u] # NoFile => wt'.results[u] # NoFile
        /\ (exitLine' = 130 /\ exitLine # 130)
              => /\ wt.results[task_id] # NoFile
                 /\ ret' = wt.results[task_id]
                 /\ wt'.results[task_id] = NoFile]_vars

C4_Witness ==
    /\ cpc = "ret"
    /\ exitLine = 130
    /\ \E u \in Ids \ {task_id} : wt.results[u] \notin {NoFile, ret}

\* C5: a failed push of the task is reported with an outcome other than the
\* one of a timeout (None).
C5_PublishFailureDistinct ==
    (cpc = "ret" /\ exitLine = 102) => ret # None

\* C6: a task whose push failed stays invisible to the peer until it is
\* submitted again.
C6_FailedTaskStaysLocal ==
    \A t \in failedLocal : t \notin remote.tasks

----------------------------------------------------------------------------
(* Claims about the Issue Detector (SpecDetector) *)

\* C8: a check of a process that is not running returns CRASH, whatever the
\* directory holds and the detector remembers; STUCK is never returned then.
C8_CrashHasPriority ==
    lastCheck.on = "down" => issue = "CRASH"

\* the check of a dead process met everything STUCK asks for
C8_Witness ==
    /\ lastCheck.on = "down"
    /\ issue = "CRASH"
    /\ ~is_running
    /\ screens # <<>>
    /\ Latest(screens) = last_screenshot
    /\ stuckAge > STUCK_THRESHOLD

\* C9: a check of a running process with no screenshot in the directory
\* returns no issue, whatever the detector remembers.
C9_NoScreenshotNoIssue ==
    lastCheck.on = "empty" => issue = None

C9_Witness ==
    /\ lastCheck.on = "empty"
    /\ issue = None
    /\ is_running
    /\ screens = <<>>
    /\ last_screenshot # NoShot
    /\ stuckAge > STUCK_THRESHOLD

\* C10: STUCK is returned only by a check of a running process whose latest
\* screenshot is the one the checks before it had been seeing for at least
\* STUCK_THRESHOLD seconds; a check that sees another screenshot than the
\* check before it, or the same one for less than the threshold, returns no
\* issue.
C10_StuckOnlyAfterThreshold ==
    /\ issue = "STUCK" =>
          (lastCheck.on = "shot" /\ lastCheck.streak >= STUCK_THRESHOLD)
    /\ (lastCheck.on = "shot" /\ lastCheck.streak < STUCK_THRESHOLD) =>
          issue = None

\* the same file at t = 0 and at t = 301
C10_Witness ==
    /\ issue = "STUCK"
    /\ lastCheck.on = "shot"
    /\ Len(obs) = 2
    /\ obs[1].age = STUCK_THRESHOLD + 1
    /\ obs[1].shot = obs[2].shot
    /\ obs[2].age = 0

----------------------------------------------------------------------------
(* Claims about the orchestration loop (Spec) *)

\* C7: counting from restart_count = 0, each of the first
\* MAX_RESTART_ATTEMPTS CRASH issues raises restart_count by one and is
\* answered without a call of ask_ai; the CRASH issue after them is handed
\* to request_fix.
C7_RestartsThenEscalates ==
    /\ crashRun \in 1..MAX_RESTART_ATTEMPTS =>
          (restart_count = crashRun /\ ~crashAsked)
    /\ crashRun > MAX_RESTART_ATTEMPTS =>
          (restart_count = MAX_RESTART_ATTEMPTS
             /\ (crashAsked \/ wpc = "request_fix"))
    /\ (wpc \in {"request_fix", "asking"} /\ issue = "CRASH") =>
          crashRun > MAX_RESTART_ATTEMPTS

C7_Witness ==
    /\ crashRun = MAX_RESTART_ATTEMPTS + 1
    /\ restart_count = MAX_RESTART_ATTEMPTS
    /\ issue = "CRASH"
    /\ wpc = "asking"
    /\ crashAsked
    /\ cpc = "loop"

\* C11: when ask_ai has yielded no response (None), and when a response was
\* received and the rebuild fails, the loop ends; and once it has ended the
\* watcher takes no further step: no tick (no sleep, no check), no start of
\* the supervised process, no call of ask_ai.
C11_FatalEndsLoop ==
    [][/\ (w_fix_returned /\ ret = None) => wpc' = "stopped"
       /\ (\E d \in BuildDurations : w_rebuild(FALSE, d)) => wpc' = "stopped"
       /\ wpc = "stopped" =>
             /\ wpc' = "stopped"
             /\ proc' \in {proc, "exited"}
             /\ cpc' = "idle" /\ wt' = wt
             /\ <<issue, last_screenshot, restart_count>>' =
                   <<issue, last_screenshot, restart_count>>]_vars

\* the escalation timed out and the loop has ended
C11_Witness ==
    /\ wpc = "stopped"
    /\ issue # None
    /\ exitLine = 136
    /\ ret = None
    /\ elapsed >= ASK_TIMEOUT

\* C12 as stated: a response that is received, whatever its text, is
\* followed by the pull and the rebuild, and a rebuild that succeeds sets
\* restart_count to 0 and restarts the process.
C12_AnyResponseRebuilds ==
    [][/\ (w_fix_returned /\ ret # None) => wpc' = "pull_latest"
       /\ (\E d \in BuildDurations : w_rebuild(TRUE, d))
             => (restart_count' = 0 /\ wpc' = "delay")]_vars

\* C12 amended: a response with a non-empty text is followed by the pull and
\* the rebuild; a rebuild that succeeds sets restart_count to 0 (the count of
\* CRASH issues answered starts again at 0), then RESTART_DELAY is slept and
\* start() is called.  A response with an empty text is treated as no
\* response: the loop ends.
C12_RebuildResets ==
    [][/\ (w_fix_returned /\ ret \notin {None, ""}) => wpc' = "pull_latest"
       /\ (w_fix_returned /\ ret = "") => wpc' = "stopped"
       /\ (\E d \in BuildDurations : w_rebuild(TRUE, d))
             => (restart_count' = 0 /\ crashRun' = 0 /\ wpc' = "delay")
       /\ (wpc = "delay" /\ wpc' \notin {"delay", "exited"}) => wpc' = "restart"
       /\ (wpc = "restart" /\ wpc' \notin {"restart", "exited", "stopped"})
             => (wpc' = "sleep" /\ restart_count' = restart_count)]_vars

\* a CRASH that was escalated, answered and rebuilt: the count is 0 again
C12_Witness ==
    /\ wpc = "delay"
    /\ issue = "CRASH"
    /\ restart_count = 0
    /\ crashRun = 0
    /\ ret = "patched"
    /\ exitLine = 130

\* C13: when a response was received and pull_latest() brings nothing new
\* (the pull finds the directory up to date, or fails), the loop does not
\* end and does not rebuild: it sleeps RESTART_DELAY, calls start() and goes
\* on to the sleep of the next tick, restart_count unchanged (a signal apart).
C13_NoNewCodeRestarts ==
    [][/\ (\E ok, code \in BOOLEAN, d \in PullDurations :
              w_pull_latest(ok, code, d) /\ ~pull_latest(ok, code, base, remote))
          => (wpc' = "delay" /\ restart_count' = restart_count)
       /\ (wpc \in {"delay", "restart"} /\ ~Signalled)
          => /\ wpc' \in {wpc, IF wpc = "delay" THEN "restart" ELSE "sleep"}
             /\ restart_count' = restart_count]_vars

\* an escalated CRASH, answered, the directory found up to date: the process
\* is about to be restarted with the counter still at its maximum
C13_Witness ==
    /\ wpc = "delay"
    /\ issue = "CRASH"
    /\ crashAsked
    /\ restart_count = MAX_RESTART_ATTEMPTS
    /\ ret = "patched"
    /\ base = remote

----------------------------------------------------------------------------
(* Claims about the Supervisor (Spec) *)

\* C14: stop() asks the process to terminate, waits the grace period and
\* only then kills it; once stop() has returned (line 406), and until the
\* next start(), is_running() yields false.
C14_StoppedAfterStop ==
    wpc \in {"decide", "delay", "restart", "request_fix", "asking",
             "pull_latest", "rebuild"} => ~is_running

\* C15: a call of start() whose probe of the proxy port fails launches no
\* process and leaves the handle as it was, and the initial call makes run()
\* return; the handle comes to refer to a newly launched process only in a
\* call of start() whose probe succeeded.
C15_ProbeBeforeLaunch ==
    [][/\ \A launch \in BOOLEAN :
             /\ w_start0(FALSE, launch)
                   => (proc' = proc /\ orphan' = orphan /\ wpc' = "stopped")
             /\ w_restart(FALSE, launch)
                   => (proc' = proc /\ orphan' = orphan)
       /\ (proc' = "running" /\ proc # "running")
             => (w_start0(TRUE, TRUE) \/ w_restart(TRUE, TRUE))]_vars

\* the initial start() has failed: no process, the handle as constructed
C15_Witness ==
    /\ wpc = "stopped"
    /\ proc = "none"
    /\ ~orphan
    /\ lastCheck.on = "none"

\* C16: when a signal has made the watcher exit, the supervised process is
\* stopped: no child is left running, whatever the watcher was doing when
\* the signal came.
C16_SignalStopsChild ==
    wpc = "exited" => (proc # "running" /\ ~orphan)

----------------------------------------------------------------------------
(* Further claims about the orchestration loop (Spec) *)

\* C17: restart_count stays within 0..MAX_RESTART_ATTEMPTS in every state of
\* the loop, whatever issues, failed starts, escalations, exceptions and
\* signals occur.
C17_RestartCountBounded ==
    restart_count \in 0..MAX_RESTART_ATTEMPTS

\* a CRASH issue handed to request_fix for the second time with the counter
\* at its maximum: the CRASH issues after the maximum did not raise it
C17_Witness ==
    /\ wpc = "request_fix"
    /\ issue = "CRASH"
    /\ crashAsked
    /\ restart_count = MAX_RESTART_ATTEMPTS

----------------------------------------------------------------------------
(* Further claims about the task exchange (SpecExchange) *)

\* C18: the task file once written, the submit synchronizes by a pull and
\* then a push, so that the task can be published also when the peer has
\* changed the store since the client's last pull (and git can merge the
\* two).
C18_SubmitPublishes ==
    (cpc = "push" /\ base # remote /\ ~Conflict(wt, base, remote))
        => ENABLED git_push_ok

----------------------------------------------------------------------------
(* Claims about errors in the orchestration loop (Spec) *)

\* C19 as stated: a start() that fails, at the initial start or at a
\* restart, a pull that fails during the wait for a result, and an exception
\* raised inside a tick each leave the loop running: the watcher goes on to
\* the sleep of a later tick, the wait to its check.
C19_TransientNeverEnds ==
    [][/\ \A tor, launch \in BOOLEAN :
             (~start_ok(tor, launch)
                 /\ (w_start0(tor, launch) \/ w_restart(tor, launch)))
             => wpc' = "sleep"
       /\ (\E d \in PullDurations : git_pull(FALSE, d))
             => (cpc' = "check" /\ wpc' = wpc)
       /\ w_exception => wpc' = "sleep"]_vars

\* C19 amended: a start() that fails at a restart, a pull that fails during
\* the wait for a result, and an exception raised inside a tick each leave
\* the loop running; a start() that fails at the initial start makes run()
\* return before the loop is entered.
C19_TransientGoesOn ==
    [][/\ \A tor, launch \in BOOLEAN :
             /\ (~start_ok(tor, launch) /\ w_restart(tor, launch))
                   => wpc' = "sleep"
             /\ (~start_ok(tor, launch) /\ w_start0(tor, launch))
                   => wpc' = "stopped"
       /\ (\E d \in PullDurations : git_pull(FALSE, d))
             => (cpc' = "check" /\ wpc' = wpc /\ wt' = wt)
       /\ w_exception => wpc' = "sleep"]_vars

\* request_fix has raised for a CRASH issue (no call of ask_ai has got as far
\* as a return statement), and the loop is at the sleep of the next tick
C19_Witness ==
    /\ wpc = "sleep"
    /\ issue = "CRASH"
    /\ crashAsked
    /\ restart_count = MAX_RESTART_ATTEMPTS
    /\ cpc = "idle"
    /\ exitLine = 0
    /\ wt.tasks = {}

----------------------------------------------------------------------------
(* Claims about the responder (SpecExchange) *)

\* C20: the responder takes a task file that is in the tasks directory,
\* writes the result file named from that task's identifier and nothing
\* else, and then removes that task file and nothing else: a task file it
\* removes is one whose result it has written just before; and no task file
\* is processed twice.
C20_ResultThenRemoval ==
    /\ [][responder_step =>
            IF rtask = "-"
            THEN /\ rtask' \in remote.tasks
                 /\ remote'.results[rtask'] # NoFile
                 /\ \A u \in Ids \ {rtask'} : remote'.results[u] = remote.results[u]
                 /\ remote'.tasks = remote.tasks
            ELSE /\ remote'.tasks = remote.tasks \ {rtask}
                 /\ remote'.results = remote.results
                 /\ rtask' = "-"]_vars
    /\ [](\A t \in Ids : handled[t] <= 1)

\* task a was answered and its file removed, the result still in the store
C20_Witness ==
    /\ handled["a"] = 1
    /\ rtask = "-"
    /\ "a" \notin remote.tasks
    /\ remote.results["a"] = "patched"
    /\ calls = 1

----------------------------------------------------------------------------
(* Implicit claims about the supervised process (Spec) *)

\* C21: the loop calls start() only when the process launched before has
\* exited (or none was launched): a handle that refers to a child still
\* alive is never overwritten, so at most one child is alive at any time.
C21_StartOnlyAfterExit ==
    [][(\E tor, launch \in BOOLEAN :
            w_start0(tor, launch) \/ w_restart(tor, launch))
          => proc \in {"none", "exited"}]_vars

\* C22: from the moment request_fix submits the task until ask_ai returns,
\* and in every state in which the loop has ended for want of a fix or
\* through a failed build, the supervised process is not running.
C22_DownDuringEscalation ==
    (wpc = "asking" \/ (wpc = "stopped" /\ issue # None)) => ~is_running

\* C23: the first check of a process that run() has just launched, made
\* CHECK_INTERVAL (less than STUCK_THRESHOLD) after the launch, does not
\* return STUCK: the time a screenshot was the latest before the launch is
\* not counted against the new process.
C23_NoStuckRightAfterStart ==
    [][(w_check /\ lastCheck.on = "started") => issue' # "STUCK"]_vars

====
